---- MODULE Spec2Model ----
(***************************************************************************)
(* scoreproxy: a SOCKS5 relay whose outbound connections are bound to a    *)
(* source address drawn from an operator-defined pool.                     *)
(*                                                                         *)
(* The repository holds two variants of the program:                       *)
(*   "list"  src/unnamed/part_002  the pool is a materialized list, built  *)
(*           from -start/-end or from -file, drawn with a private rand.Rand*)
(*   "span"  src/main.go           the pool is the numeric span            *)
(*           [ipRangeStart, ipRangeEnd], drawn with the global rand        *)
(*                                                                         *)
(* Addresses are scaled: an address is IPLen octets, each below OctetBase  *)
(* (the program: 4 octets below 256), so the unsigned counter wraps at     *)
(* Modulus = OctetBase^IPLen (the program: 2^32).                          *)
(***************************************************************************)
EXTENDS Integers, Sequences, FiniteSets, TLC

\* ------------------------------------------------------------------ bounds
OctetBase == 3
IPLen == 2
MaxLines == 3
NumSessions == 2

Modulus == OctetBase ^ IPLen
MaxU32 == Modulus - 1
\* The generation loop is followed for at most this many appends: more than
\* any range holds, so only a loop that has wrapped is cut.
MaxAlloc == Modulus + 2

Sessions == 1..NumSessions

\* ------------------------------------------------- text and address helpers
\* A string is a sequence of one-character strings.
Digits == <<"0", "1", "2", "3", "4", "5", "6", "7", "8", "9">>

IsOctetChar(c) == \E k \in 1..OctetBase : Digits[k] = c

DigitVal(c) == (CHOOSE k \in 1..10 : Digits[k] = c) - 1

\* The nil net.IP.
NilIP == <<>>

\* The host's own address: what the kernel gives a socket bound to no
\* specific address. Not an element of any pool.
HostAddr == <<"host">>

\* net.ParseIP(s).To4(): a dotted literal of IPLen octets, or nil.
ParseIP(s) ==
  IF /\ Len(s) = 2 * IPLen - 1
     /\ \A k \in 1..Len(s) :
          IF k % 2 = 1 THEN IsOctetChar(s[k]) ELSE s[k] = "."
  THEN [k \in 1..IPLen |-> DigitVal(s[2 * k - 1])]
  ELSE NilIP

\* net.IP.String() of a 4-byte address.
IPString(ip) ==
  [k \in 1..(2 * IPLen - 1) |->
     IF k % 2 = 1 THEN Digits[ip[(k + 1) \div 2] + 1] ELSE "."]

\* binary.BigEndian.Uint32(ip.To4())
RECURSIVE BigEndian(_, _)
BigEndian(ip, n) ==
  IF n = 0 THEN 0 ELSE BigEndian(ip, n - 1) * OctetBase + ip[n]

ipToUint32(ip) == BigEndian(ip, IPLen)

\* binary.BigEndian.PutUint32(ip, n) on a fresh 4-byte net.IP
uint32ToIP(n) ==
  [k \in 1..IPLen |-> (n \div (OctetBase ^ (IPLen - k))) % OctetBase]

\* net.IP.IsUnspecified(): the address 0.0.0.0
IsUnspecified(ip) == ip # NilIP /\ \A k \in 1..Len(ip) : ip[k] = 0

\* strings.TrimSpace
RECURSIVE TrimLeft(_)
TrimLeft(s) ==
  IF s # <<>> /\ Head(s) = " " THEN TrimLeft(Tail(s)) ELSE s

RECURSIVE TrimRight(_)
TrimRight(s) ==
  IF s # <<>> /\ s[Len(s)] = " "
  THEN TrimRight(SubSeq(s, 1, Len(s) - 1))
  ELSE s

TrimSpace(s) == TrimRight(TrimLeft(s))

\* strings.HasPrefix
HasPrefix(s, p) == Len(s) >= Len(p) /\ SubSeq(s, 1, Len(p)) = p

\* The literal of the address with numeric value n.
Lit(n) == IPString(uint32ToIP(n))

\* ------------------------------------------------------------------- state
VARIABLES
  variant,       \* "list" (part_002) or "span" (main.go)
  startFlag,     \* -start
  endFlag,       \* -end
  fileFlag,      \* -file
  file,          \* what -file names: [readable, lines, scanErr]
  pc,            \* main's position
  exitReason,    \* why the process exited
  i,             \* validateIPRange: the loop counter
  ips,           \* validateIPRange: the list under construction
  ipList,        \* the global pool of the list variant
  ipRangeStart,  \* the globals of the span variant
  ipRangeEnd,
  warnings,      \* line numbers of the warnings loadIPsFromFile logged
  seeded,        \* the random source is initialised
  startupPool,   \* the pool as it was when construction returned
  sess           \* per relay session: the customDialer call in progress

vars == <<variant, startFlag, endFlag, fileFlag, file, pc, exitReason, i, ips,
          ipList, ipRangeStart, ipRangeEnd, warnings, seeded, startupPool,
          sess>>


\* ------------------------------------------------------- pool construction
\* validateIPRange (list variant), up to the generation loop: the parse of
\* both literals and the order check.
validateIPRangeHead(startStr, endStr) ==
  LET startIP == ParseIP(startStr)
      endIP == ParseIP(endStr)
  IN IF startIP = NilIP \/ endIP = NilIP THEN "invalid"
     ELSE IF ipToUint32(startIP) > ipToUint32(endIP) THEN "order"
     ELSE "ok"

\* for i := startVal; i <= endVal; i++
LoopCondition(n, endVal) == n <= endVal

\* i++ on a uint32
Increment(n) == (n + 1) % Modulus

\* if i == 0xffffffff && i < endVal { break }
LoopBreaks(n, endVal) == n = MaxU32 /\ n < endVal

\* validateIPRange (span variant): the whole function.
validateIPRangeSpan(startStr, endStr) ==
  LET startIP == ParseIP(startStr)
      endIP == ParseIP(endStr)
  IN IF startIP = NilIP
     THEN [err |-> "invalid", startIP |-> NilIP, endIP |-> NilIP]
     ELSE IF endIP = NilIP
     THEN [err |-> "invalid", startIP |-> NilIP, endIP |-> NilIP]
     ELSE IF ipToUint32(startIP) > ipToUint32(endIP)
     THEN [err |-> "order", startIP |-> NilIP, endIP |-> NilIP]
     ELSE [err |-> "none", startIP |-> startIP, endIP |-> endIP]

\* The skip test without the comment prefix.
SkipLineBlankOnly(line) == line = <<>>

\* loadIPsFromFile: a trimmed line that is skipped without a warning.
SkipLine(line) == line = <<>> \/ HasPrefix(line, <<"#">>)

\* loadIPsFromFile: the scan loop from line lineNumber on; got is the list
\* so far, warned the line numbers warned about so far.
RECURSIVE ScanLines(_, _, _, _)
ScanLines(lines, lineNumber, got, warned) ==
  IF lineNumber > Len(lines)
  THEN [ips |-> got, warnings |-> warned]
  ELSE LET line == TrimSpace(lines[lineNumber])
       IN IF SkipLine(line)
          THEN ScanLines(lines, lineNumber + 1, got, warned)
          ELSE IF ParseIP(line) # NilIP
          THEN ScanLines(lines, lineNumber + 1, Append(got, ParseIP(line)),
                         warned)
          ELSE ScanLines(lines, lineNumber + 1, got,
                         Append(warned, lineNumber))

\* loadIPsFromFile: the error it returns ("none": it returns the list), the
\* list, and the warnings it logged on the way.
loadIPsFromFile(f) ==
  IF ~f.readable
  THEN [err |-> "open", ips |-> <<>>, warnings |-> <<>>]
  ELSE LET r == ScanLines(f.lines, 1, <<>>, <<>>)
       IN IF f.scanErr
          THEN [err |-> "scan", ips |-> <<>>, warnings |-> r.warnings]
          ELSE IF Len(r.ips) = 0
          THEN [err |-> "empty", ips |-> <<>>, warnings |-> r.warnings]
          ELSE [err |-> "none", ips |-> r.ips, warnings |-> r.warnings]

\* ------------------------------------------------------------ derived state
StartVal == ipToUint32(ParseIP(startFlag))
EndVal == ipToUint32(ParseIP(endFlag))

\* The pool in the variant's own representation.
Pool == IF variant = "list" THEN ipList ELSE <<ipRangeStart, ipRangeEnd>>

\* The addresses of the pool.
PoolAddrs ==
  IF variant = "list"
  THEN {ipList[k] : k \in 1..Len(ipList)}
  ELSE {uint32ToIP(n) : n \in ipRangeStart..ipRangeEnd}

\* ------------------------------------------------------------------ startup
Exit(reason) ==
  /\ pc' = "exited"
  /\ exitReason' = reason

\* main (list variant): the switch over the flags. File mode runs
\* loadIPsFromFile to its end; range mode runs validateIPRange up to its loop.
ListSelectSource ==
  /\ pc = "flags"
  /\ variant = "list"
  /\ IF fileFlag # <<>>
     THEN LET r == loadIPsFromFile(file)
          IN /\ warnings' = r.warnings
             /\ IF r.err # "none"
                THEN /\ Exit("file")
                     /\ UNCHANGED <<ipList, startupPool>>
                ELSE IF Len(r.ips) = 0
                THEN /\ Exit("empty")
                     /\ ipList' = r.ips
                     /\ UNCHANGED startupPool
                ELSE /\ ipList' = r.ips
                     /\ startupPool' = r.ips
                     /\ pc' = "built"
                     /\ UNCHANGED exitReason
             /\ UNCHANGED <<i, ips>>
     ELSE IF startFlag # <<>> /\ endFlag # <<>>
     THEN /\ IF validateIPRangeHead(startFlag, endFlag) # "ok"
             THEN /\ Exit("range")
                  /\ UNCHANGED <<i, ips>>
             ELSE /\ pc' = "loop"
                  /\ i' = StartVal
                  /\ ips' = <<>>
                  /\ UNCHANGED exitReason
          /\ UNCHANGED <<ipList, startupPool, warnings>>
     ELSE /\ Exit("usage")
          /\ UNCHANGED <<i, ips, ipList, startupPool, warnings>>
  /\ UNCHANGED <<variant, startFlag, endFlag, fileFlag, file, ipRangeStart,
                 ipRangeEnd, seeded, sess>>

\* validateIPRange (list variant): one iteration of the generation loop.
RangeLoop ==
  /\ pc = "loop"
  /\ LoopCondition(i, EndVal)
  /\ Len(ips) < MaxAlloc
  /\ ips' = Append(ips, uint32ToIP(i))
  /\ IF LoopBreaks(i, EndVal)
     THEN pc' = "loopDone" /\ i' = i
     ELSE pc' = pc /\ i' = Increment(i)
  /\ UNCHANGED <<variant, startFlag, endFlag, fileFlag, file, exitReason,
                 ipList, ipRangeStart, ipRangeEnd, warnings, seeded,
                 startupPool, sess>>

\* validateIPRange (list variant): the loop has ended; the function returns
\* and main assigns ipList and checks it.
RangeReturn ==
  /\ pc \in {"loop", "loopDone"}
  /\ pc = "loop" => ~LoopCondition(i, EndVal)
  /\ IF Len(ips) = 0
     THEN /\ Exit("range")
          /\ UNCHANGED <<ipList, startupPool>>
     ELSE /\ ipList' = ips
          /\ startupPool' = ips
          /\ pc' = "built"
          /\ UNCHANGED exitReason
  /\ UNCHANGED <<variant, startFlag, endFlag, fileFlag, file, i, ips,
                 ipRangeStart, ipRangeEnd, warnings, seeded, sess>>

\* main (span variant): the flag check and validateIPRange. The variant
\* defines no -file flag: flag.Parse rejects it with the usage text.
SpanSelectSource ==
  /\ pc = "flags"
  /\ variant = "span"
  /\ IF fileFlag # <<>> \/ startFlag = <<>> \/ endFlag = <<>>
     THEN /\ Exit("usage")
          /\ UNCHANGED <<ipRangeStart, ipRangeEnd, startupPool>>
     ELSE LET r == validateIPRangeSpan(startFlag, endFlag)
          IN IF r.err # "none"
             THEN /\ Exit("range")
                  /\ UNCHANGED <<ipRangeStart, ipRangeEnd, startupPool>>
             ELSE /\ ipRangeStart' = ipToUint32(r.startIP)
                  /\ ipRangeEnd' = ipToUint32(r.endIP)
                  /\ startupPool' = <<ipToUint32(r.startIP),
                                      ipToUint32(r.endIP)>>
                  /\ pc' = "built"
                  /\ UNCHANGED exitReason
  /\ UNCHANGED <<variant, startFlag, endFlag, fileFlag, file, i, ips, ipList,
                 warnings, seeded, sess>>

\* main: the random source is created (list) or seeded (span).
Seed ==
  /\ pc = "built"
  /\ seeded' = TRUE
  /\ pc' = "seeded"
  /\ UNCHANGED <<variant, startFlag, endFlag, fileFlag, file, exitReason, i,
                 ips, ipList, ipRangeStart, ipRangeEnd, warnings,
                 startupPool, sess>>

\* main: socks5.New and ListenAndServe; either can fail, and that is fatal.
Listen ==
  /\ pc = "seeded"
  /\ \/ pc' = "listening" /\ UNCHANGED exitReason
     \/ Exit("listen")
  /\ UNCHANGED <<variant, startFlag, endFlag, fileFlag, file, i, ips, ipList,
                 ipRangeStart, ipRangeEnd, warnings, seeded, startupPool,
                 sess>>


\* --------------------------------------------------------------- customDialer
Networks == {"tcp", "udp"}

ConnectErrors == {"timeout", "refused", "unreachable", "cancelled"}

\* What c.Control and the setsockopt inside it can do (a session's ctl, once
\* the hook has run): "ok" the option is set; "opErr" setsockopt ran and failed; "ctlErr" c.Control failed before
\* running the closure, so setsockopt never ran.
ControlOutcomes == {"ok", "opErr", "ctlErr"}

\* No customDialer call in progress.
IdleSession ==
  [pc |-> "idle", network |-> "none", localIP |-> NilIP, ctl |-> "none",
   local |-> NilIP, draws |-> 0, connects |-> 0, result |-> "none",
   fail |-> "none"]

\* Some other session is inside the generator of localRand.
OthersInRand(s) == \E t \in Sessions \ {s} : sess[t].pc = "inRand"

\* customDialer (list variant): the check of what randomIP returned.
RejectsLocalIP(ip) ==
  variant = "list" /\ (ip = NilIP \/ IsUnspecified(ip))

\* LocalAddr is a *net.TCPAddr whatever the network: DialContext refuses a
\* local address whose network is not the dialed one, before any socket.
LocalAddrMismatch(network) == network # "tcp"

\* The error the Control hook returns to the dialer, by what happened in it.
\* The list variant checks c.Control's own error and setsockopt's; the span
\* variant drops c.Control's return value and reports only setsockopt's.
ControlFails(outcome) ==
  IF variant = "list" THEN outcome # "ok" ELSE outcome = "opErr"

\* The local endpoint a bind to ip gives the socket.
BoundEndpoint(ip) == IF IsUnspecified(ip) THEN HostAddr ELSE ip

\* A customDialer that starts over after a failed attempt.
ReturnAndRetry(s, res, why, attempts) ==
  sess' = [sess EXCEPT ![s].pc = IF res = "err" THEN "idle" ELSE "done",
                       ![s].result = res, ![s].fail = why,
                       ![s].connects = @ + attempts]

\* customDialer returns to the relay, after this many connect attempts.
Return(s, res, why, attempts) ==
  sess' = [sess EXCEPT ![s].pc = "done", ![s].result = res, ![s].fail = why,
                       ![s].connects = @ + attempts]

\* randomIP (list variant) is entered by a new customDialer call: an empty
\* list answers at once, otherwise the call is now inside localRand.Intn.
ListRandEnter(s, net) ==
  /\ pc = "listening"
  /\ variant = "list"
  /\ sess[s].pc = "idle"
  /\ IF Len(ipList) = 0
     THEN sess' = [sess EXCEPT ![s].pc = "haveIP", ![s].network = net,
                               ![s].draws = @ + 1,
                               ![s].localIP = uint32ToIP(0)]
     ELSE sess' = [sess EXCEPT ![s].pc = "inRand", ![s].network = net,
                               ![s].draws = @ + 1]
  /\ UNCHANGED <<variant, startFlag, endFlag, fileFlag, file, pc, exitReason,
                 i, ips, ipList, ipRangeStart, ipRangeEnd, warnings, seeded,
                 startupPool>>

\* randomIP (list variant) returns ipList[localRand.Intn(len(ipList))].
\* localRand is a rand.Rand over rand.NewSource: not safe for concurrent
\* use. With another call inside it the generator's state is raced on, and
\* the call either returns an index below its argument or panics on the
\* generator's own array, which ends the process.
ListRandLeave(s) ==
  /\ pc = "listening"
  /\ variant = "list"
  /\ sess[s].pc = "inRand"
  /\ \/ /\ \E k \in 1..Len(ipList) :
             sess' = [sess EXCEPT ![s].pc = "haveIP", ![s].localIP = ipList[k]]
        /\ UNCHANGED pc
     \/ /\ OthersInRand(s)
        /\ pc' = "crashed"
        /\ UNCHANGED sess
  /\ UNCHANGED <<variant, startFlag, endFlag, fileFlag, file, exitReason, i,
                 ips, ipList, ipRangeStart, ipRangeEnd, warnings, seeded,
                 startupPool>>

\* total := ipRangeEnd - ipRangeStart + 1 on uint32
SpanTotal == (ipRangeEnd - ipRangeStart + 1) % Modulus

\* randomIP (span variant), called by a new customDialer call. rand.Intn is
\* the global, locked generator; it panics when its argument is not positive.
SpanRandomIP(s, net) ==
  /\ pc = "listening"
  /\ variant = "span"
  /\ sess[s].pc = "idle"
  /\ IF SpanTotal <= 0
     THEN /\ pc' = "crashed"
          /\ sess' = [sess EXCEPT ![s].network = net, ![s].draws = @ + 1]
     ELSE /\ \E offset \in 0..(SpanTotal - 1) :
               sess' = [sess EXCEPT
                          ![s].pc = "haveIP", ![s].network = net,
                          ![s].draws = @ + 1,
                          ![s].localIP =
                             uint32ToIP((ipRangeStart + offset) % Modulus)]
          /\ UNCHANGED pc
  /\ UNCHANGED <<variant, startFlag, endFlag, fileFlag, file, exitReason, i,
                 ips, ipList, ipRangeStart, ipRangeEnd, warnings, seeded,
                 startupPool>>

\* customDialer from randomIP's return to the socket DialContext creates.
DialResolve(s) ==
  /\ pc = "listening"
  /\ sess[s].pc = "haveIP"
  /\ IF RejectsLocalIP(sess[s].localIP)
     THEN Return(s, "err", "noip", 0)
     ELSE IF LocalAddrMismatch(sess[s].network)
     THEN Return(s, "err", "mismatch", 0)
     ELSE sess' = [sess EXCEPT ![s].pc = "socket"]
  /\ UNCHANGED <<variant, startFlag, endFlag, fileFlag, file, pc, exitReason,
                 i, ips, ipList, ipRangeStart, ipRangeEnd, warnings, seeded,
                 startupPool>>

\* The Control hook of the dialer runs on the new socket.
Control(s) ==
  /\ pc = "listening"
  /\ sess[s].pc = "socket"
  /\ \E outcome \in ControlOutcomes :
       IF ControlFails(outcome)
       THEN sess' = [sess EXCEPT ![s].pc = "done", ![s].result = "err",
                                 ![s].fail = outcome, ![s].ctl = outcome]
       ELSE sess' = [sess EXCEPT ![s].pc = "prepared", ![s].ctl = outcome]
  /\ UNCHANGED <<variant, startFlag, endFlag, fileFlag, file, pc, exitReason,
                 i, ips, ipList, ipRangeStart, ipRangeEnd, warnings, seeded,
                 startupPool>>

\* DialContext binds the socket to LocalAddr; the kernel may refuse.
Bind(s) ==
  /\ pc = "listening"
  /\ sess[s].pc = "prepared"
  /\ \/ sess' = [sess EXCEPT ![s].pc = "bound",
                             ![s].local = BoundEndpoint(sess[s].localIP)]
     \/ Return(s, "err", "bind", 0)
  /\ UNCHANGED <<variant, startFlag, endFlag, fileFlag, file, pc, exitReason,
                 i, ips, ipList, ipRangeStart, ipRangeEnd, warnings, seeded,
                 startupPool>>

\* DialContext connects, within the timeout and the caller's context, and
\* customDialer returns the connection or the error.
Connect(s) ==
  /\ pc = "listening"
  /\ sess[s].pc = "bound"
  /\ \/ Return(s, "conn", "none", 1)
     \/ \E e \in ConnectErrors : Return(s, "err", e, 1)
  /\ UNCHANGED <<variant, startFlag, endFlag, fileFlag, file, pc, exitReason,
                 i, ips, ipList, ipRangeStart, ipRangeEnd, warnings, seeded,
                 startupPool>>

\* The relay session is over; the next one starts with a fresh call.
SessionEnd(s) ==
  /\ pc = "listening"
  /\ sess[s].pc = "done"
  /\ sess' = [sess EXCEPT ![s] = IdleSession]
  /\ UNCHANGED <<variant, startFlag, endFlag, fileFlag, file, pc, exitReason,
                 i, ips, ipList, ipRangeStart, ipRangeEnd, warnings, seeded,
                 startupPool>>


\* ------------------------------------------------------------------- inputs
\* A flag value that is no address literal.
BadLiteral == <<"x">>

\* The value of -file when it is given.
FilePath == <<"f">>

\* What the file argument names when -file is not given.
NoFile == [readable |-> FALSE, lines |-> <<>>, scanErr |-> FALSE]

SeqsUpTo(S, n) == UNION {[1..k -> S] : k \in 0..n}

\* Every address literal.
AllLiterals == {Lit(n) : n \in 0..MaxU32}

\* Lines of an address file: blank, comment, valid (bare and padded) and
\* invalid ones (garbage, trailing comment, truncated, octet out of range,
\* inner space).
FileLines ==
  { <<>>, <<" ">>, <<"#", "0">>, <<" ", "#">>,
    Lit(0), <<" ">> \o Lit(1) \o <<" ">>, Lit(MaxU32),
    <<"x">>, Lit(1) \o <<"#">>, SubSeq(Lit(1), 1, 2), <<"9", ".", "9">>,
    <<"0", " ", "1">> }

AllFiles ==
  {NoFile} \cup
  {[readable |-> TRUE, lines |-> l, scanErr |-> e] :
     l \in SeqsUpTo(FileLines, MaxLines), e \in BOOLEAN}

\* The -start/-end pairs of the whole-program specification: none, half,
\* malformed, reversed, two small ranges, and the ranges that end at the
\* highest address.
RangeInputs ==
  { <<<<>>, <<>>>>, <<Lit(0), <<>>>>, <<<<>>, Lit(1)>>,
    <<BadLiteral, Lit(1)>>, <<Lit(1), Lit(0)>>,
    <<Lit(0), Lit(1)>>, <<Lit(1), Lit(2)>>,
    <<Lit(MaxU32), Lit(MaxU32)>>, <<Lit(0), Lit(MaxU32)>> }

\* The -start/-end pairs given together with -file.
RangeInputsWithFile ==
  { <<<<>>, <<>>>>, <<Lit(0), <<>>>>, <<Lit(1), Lit(2)>> }

\* The files of the whole-program specification: missing, empty, two valid
\* addresses among other lines, no valid address, a read error.
MainFiles ==
  { NoFile,
    [readable |-> TRUE, lines |-> <<>>, scanErr |-> FALSE],
    [readable |-> TRUE, scanErr |-> FALSE,
     lines |-> <<<<"#", "0">>, Lit(1), <<"x">>, <<" ">> \o Lit(2)>>],
    [readable |-> TRUE, lines |-> <<<<"x">>, <<>>>>, scanErr |-> FALSE],
    [readable |-> TRUE, lines |-> <<Lit(1)>>, scanErr |-> TRUE] }

\* The state when main starts, the inputs left open.
InitRest ==
  /\ pc = "flags"
  /\ exitReason = "none"
  /\ i = 0
  /\ ips = <<>>
  /\ ipList = <<>>
  /\ ipRangeStart = 0
  /\ ipRangeEnd = 0
  /\ warnings = <<>>
  /\ seeded = FALSE
  /\ startupPool = <<>>
  /\ sess = [s \in Sessions |-> IdleSession]

\* ----------------------------------------------------------- specifications
\* The whole program, both variants, with concurrent relay sessions.
Init ==
  /\ variant \in {"list", "span"}
  /\ \/ /\ fileFlag = <<>>
        /\ file = NoFile
        /\ \E p \in RangeInputs : startFlag = p[1] /\ endFlag = p[2]
     \/ /\ fileFlag = FilePath
        /\ file \in MainFiles
        /\ \E p \in RangeInputsWithFile : startFlag = p[1] /\ endFlag = p[2]
  /\ InitRest

Next ==
  \/ ListSelectSource
  \/ RangeLoop
  \/ RangeReturn
  \/ SpanSelectSource
  \/ Seed
  \/ Listen
  \/ \E s \in Sessions, net \in Networks : ListRandEnter(s, net)
  \/ \E s \in Sessions : ListRandLeave(s)
  \/ \E s \in Sessions, net \in Networks : SpanRandomIP(s, net)
  \/ \E s \in Sessions : DialResolve(s)
  \/ \E s \in Sessions : Control(s)
  \/ \E s \in Sessions : Bind(s)
  \/ \E s \in Sessions : Connect(s)
  \/ \E s \in Sessions : SessionEnd(s)

Spec == Init /\ [][Next]_vars

\* Range-mode construction of the list variant, over every pair of flag
\* values.
InitRange ==
  /\ variant = "list"
  /\ fileFlag = <<>>
  /\ file = NoFile
  /\ startFlag \in AllLiterals \cup {BadLiteral}
  /\ endFlag \in AllLiterals \cup {BadLiteral}
  /\ InitRest

NextRange ==
  \/ ListSelectSource
  \/ RangeLoop
  \/ RangeReturn

SpecRange == InitRange /\ [][NextRange]_vars

\* File-mode construction of the list variant, over every file.
InitFile ==
  /\ variant = "list"
  /\ fileFlag = FilePath
  /\ file \in AllFiles
  /\ startFlag = <<>>
  /\ endFlag = <<>>
  /\ InitRest

NextFile == ListSelectSource

SpecFile == InitFile /\ [][NextFile]_vars

\* The arithmetic draw of the span variant, over every pair of literals.
InitDraw ==
  /\ variant = "span"
  /\ fileFlag = <<>>
  /\ file = NoFile
  /\ startFlag \in AllLiterals
  /\ endFlag \in AllLiterals
  /\ InitRest

NextDraw ==
  \/ SpanSelectSource
  \/ Seed
  \/ Listen
  \/ \E net \in Networks : SpanRandomIP(1, net)

SpecDraw == InitDraw /\ [][NextDraw]_vars


\* ------------------------------------------------------------------- claims
RangeGiven == startFlag # <<>> /\ endFlag # <<>>

FileGiven == fileFlag # <<>>

\* Both flag values are address literals.
RangeParses == ParseIP(startFlag) # NilIP /\ ParseIP(endFlag) # NilIP

\* A well-formed address.
IsIPv4(ip) == Len(ip) = IPLen /\ \A k \in 1..IPLen : ip[k] \in 0..(OctetBase - 1)

\* C1: range-mode construction of the list variant. For valid literals with
\* lower <= upper the construction yields exactly upper - lower + 1
\* well-formed addresses, the k-th of numeric value lower + k - 1 (so
\* ascending, distinct and within [lower, upper]): the list it builds is at
\* every point the first addresses of that range, the pool it returns is the
\* whole range, and it does not fail; for lower > upper it fails with the
\* range error and there is no pool.
C1_RangePool ==
  RangeParses =>
    /\ (StartVal <= EndVal /\ pc \in {"loop", "loopDone"}) =>
          /\ Len(ips) <= EndVal - StartVal + 1
          /\ \A k \in 1..Len(ips) :
               /\ IsIPv4(ips[k])
               /\ ipToUint32(ips[k]) = StartVal + k - 1
    /\ (StartVal <= EndVal /\ pc = "built") =>
          /\ Len(ipList) = EndVal - StartVal + 1
          /\ \A k \in 1..Len(ipList) :
               /\ IsIPv4(ipList[k])
               /\ ipToUint32(ipList[k]) = StartVal + k - 1
    /\ StartVal <= EndVal => pc # "exited"
    /\ StartVal > EndVal =>
          /\ pc \in {"flags", "exited"}
          /\ pc = "exited" => exitReason = "range"
          /\ ipList = <<>>

\* C2: with upper the highest address, the generation loop stops once upper
\* is appended: the list never holds more than upper - lower + 1 addresses,
\* never an address outside [lower, upper], and after the append of upper
\* the loop condition is false (the counter has not wrapped to 0).
C2_StopsAtUpper ==
  (pc \in {"loop", "loopDone"} /\ EndVal = MaxU32) =>
    /\ Len(ips) <= EndVal - StartVal + 1
    /\ \A k \in 1..Len(ips) : ipToUint32(ips[k]) \in StartVal..EndVal
    /\ (ips # <<>> /\ ipToUint32(ips[Len(ips)]) = EndVal /\ pc = "loop")
          => ~LoopCondition(i, EndVal)

\* C3: a session's socket is bound or connected only with the free-bind
\* option set on it, and when setting the option failed, in the setsockopt
\* call or in the control call around it, the dial has returned an error
\* without bind or connect.
C3_FreeBindBeforeConnect ==
  \A s \in Sessions :
    /\ (sess[s].pc = "bound" \/ sess[s].connects > 0 \/ sess[s].local # NilIP)
          => sess[s].ctl = "ok"
    /\ sess[s].ctl \in {"opErr", "ctlErr"} =>
          /\ sess[s].pc = "done"
          /\ sess[s].result = "err"
          /\ sess[s].connects = 0
          /\ sess[s].local = NilIP

\* C4: no two sessions are inside the generator of the random source at the
\* same time, no draw ends the process, and every address a draw returned is
\* an element of the pool.
C4_SelectIsSerialized ==
  /\ \A s, t \in Sessions :
       (s # t /\ variant = "list") =>
          ~(sess[s].pc = "inRand" /\ sess[t].pc = "inRand")
  /\ variant = "list" => pc # "crashed"
  /\ \A s \in Sessions :
       sess[s].pc \in {"haveIP", "socket", "prepared", "bound", "done"}
          => sess[s].localIP \in PoolAddrs

\* Main went past the flag check into building a pool.
ProceededToBuild ==
  /\ pc # "flags"
  /\ ~(pc = "exited" /\ exitReason = "usage")

\* C5: the process goes on to build a pool only when exactly one of range
\* (both -start and -end) and file is given; with neither, with half a range
\* and no file, or with both a file and a range, it ends with the usage error.
C5_ExactlyOneSource ==
  ProceededToBuild => (RangeGiven # FileGiven)

\* A line of an address file that yields an address.
ValidLine(l) ==
  LET t == TrimSpace(l)
  IN t # <<>> /\ t[1] # "#" /\ ParseIP(t) # NilIP

\* A line of an address file that must be warned about.
WarnLine(l) ==
  LET t == TrimSpace(l)
  IN t # <<>> /\ t[1] # "#" /\ ParseIP(t) = NilIP

\* The addresses of the valid lines, in file order.
ExpectedPool(lines) ==
  LET valid == SelectSeq(lines, ValidLine)
  IN [k \in 1..Len(valid) |-> ParseIP(TrimSpace(valid[k]))]

\* C6: file-mode construction. When the file was read, the warnings logged
\* are the numbers of the non-blank, non-comment lines that do not parse,
\* one each and in order; the pool returned is the sequence of addresses of
\* the valid lines in file order, and it is returned whenever the scan ended
\* without a read error and some line is valid; with no valid line the
\* construction fails and there is no pool.
C6_FilePool ==
  (pc # "flags" /\ file.readable) =>
    /\ \A k \in 1..(Len(warnings) - 1) : warnings[k] < warnings[k + 1]
    /\ {warnings[k] : k \in 1..Len(warnings)}
         = {n \in 1..Len(file.lines) : WarnLine(file.lines[n])}
    /\ pc = "built" => ipList = ExpectedPool(file.lines)
    /\ (~file.scanErr /\ ExpectedPool(file.lines) # <<>>) => pc = "built"
    /\ ExpectedPool(file.lines) = <<>> =>
          /\ pc = "exited"
          /\ exitReason = "file"
          /\ ipList = <<>>

\* A file of two valid lines and one invalid line gave two addresses and one
\* warning.
C6_Witness ==
  /\ pc = "built"
  /\ Len(file.lines) = 3
  /\ Len(ipList) = 2
  /\ Len(warnings) = 1

\* The configuration is one the relay must not start with.
ConfigError ==
  IF RangeGiven = FileGiven THEN TRUE
  ELSE IF RangeGiven THEN ~RangeParses \/ StartVal > EndVal
  ELSE \/ ~file.readable
       \/ file.scanErr
       \/ \A n \in 1..Len(file.lines) : ~ValidLine(file.lines[n])

\* Some session has a customDialer call in progress.
Dialing == \E s \in Sessions : sess[s].pc \notin {"idle", "done"}

\* C7: the relay listens only after the pool was built and the random source
\* initialised; while it listens or a dial is in progress the pool is
\* non-empty and is the pool built at startup; with a configuration error
\* (bad flag combination, malformed or reversed range, unreadable or
\* all-invalid file) the process never gets past startup to listen.
C7_FailFastImmutablePool ==
  /\ (pc = "listening" \/ Dialing) =>
        /\ seeded
        /\ startupPool # <<>>
        /\ Pool = startupPool
        /\ PoolAddrs # {}
  /\ ConfigError => pc \in {"flags", "exited"}

\* The failures of a dial that the socket option, the bind or the connect
\* caused.
AttemptFailures == {"opErr", "ctlErr", "bind"} \cup ConnectErrors

\* C8: in a dial over "tcp" or "udp" the socket is bound to the address the
\* call selected before it connects; a connection the dial returns has that
\* pool address as its local endpoint, never the host's own; and the dial
\* fails only when the socket option, the bind or the connect failed, so
\* that a connection is a possible outcome for either network.
C8_LocalEndpoint ==
  \A s \in Sessions :
    sess[s].network \in Networks =>
      /\ (sess[s].pc = "bound" \/ sess[s].connects > 0)
            => sess[s].local = sess[s].localIP
      /\ sess[s].result = "conn" =>
            /\ sess[s].local = sess[s].localIP
            /\ sess[s].local \in PoolAddrs
            /\ sess[s].local # HostAddr
      /\ sess[s].result = "err" => sess[s].fail \in AttemptFailures

\* C9: a customDialer call draws once and connects at most once; once it
\* has failed it does nothing more (the session can only end); and the step
\* in which it fails leaves the pool, the process and every other session as
\* they were.
C9_NoRetry ==
  [][\A s \in Sessions :
       /\ sess'[s].draws <= 1
       /\ sess'[s].connects <= 1
       /\ sess'[s].pc = "done" => sess'[s].draws = 1
       /\ sess[s].result = "err" => sess'[s] \in {sess[s], IdleSession}
       /\ (sess[s].result # "err" /\ sess'[s].result = "err") =>
             /\ Pool' = Pool
             /\ pc' = pc
             /\ \A t \in Sessions \ {s} : sess'[t] = sess[t]]_vars

\* A dial failed in its connect while another session's dial was in progress.
C9_Witness ==
  \E s, t \in Sessions :
    /\ s # t
    /\ sess[s].result = "err"
    /\ sess[s].fail \in ConnectErrors
    /\ sess[s].draws = 1
    /\ sess[s].connects = 1
    /\ sess[t].pc \in {"socket", "prepared", "bound"}

\* C10: the arithmetic draw of the span variant never panics, also on the
\* full range where end - start + 1 wraps to 0, and the address it returns
\* has a numeric value within [start, end].
C10_DrawInRange ==
  /\ pc # "crashed"
  /\ \A s \in Sessions :
       sess[s].pc = "haveIP" =>
          ipToUint32(sess[s].localIP) \in ipRangeStart..ipRangeEnd

====
